---- MODULE Spec2Model ----
(***************************************************************************)
(* The asynchronous loan pipeline of mortgage-microservices:               *)
(*   loan-service (POST /loans)  --> doc-verification-queue                *)
(*   doc-verification-service    --> eligibility-queue                     *)
(*   eligibility-lambda          --> loan-approved-topic (SNS)             *)
(* The loans table, the two SQS queues and the SNS topic are the shared    *)
(* state; every await on one of them is one atomic step of its caller.     *)
(***************************************************************************)
EXTENDS Integers, Sequences, FiniteSets, TLC

(* ------------------------------ bounds -------------------------------- *)
\* number of loans POST /loans may create in one run
MaxLoans == 1
\* how many message deliveries (first deliveries and redeliveries, both
\* queues together) the broker makes in one run
MaxDeliveries == 3
\* how many messages senders other than loan-service put on the verification
\* queue in one run
MaxForeign == 1

(* ------------------------- program constants --------------------------- *)
\* MaxNumberOfMessages of the receive call
MaxNumberOfMessages == 10
\* the ceiling of calculateEligibility
MaxLoanAmount == 1000000

LoanIds == 1..MaxLoans
\* rows of the users table
UserIds == {1, 2}
\* a userId with no row in the users table
NoUser == 3
\* loanAmount values that pass Joi.number().positive()
Amounts == {999999, 1000000}
\* the validated bodies POST /loans is called with
Requests ==
  {[userId |-> 1, loanAmount |-> 999999], [userId |-> 2, loanAmount |-> 1000000],
   [userId |-> NoUser, loanAmount |-> 999999]}
\* instances of doc-verification-service polling the same queue
VWorkers == {"v1", "v2"}
\* requests of one service that call db.query at the same time
Callers == {"r1", "r2", "r3"}

PENDING_VERIFICATION == "PENDING_VERIFICATION"
VERIFIED == "VERIFIED"
VERIFICATION_FAILED == "VERIFICATION_FAILED"
APPROVED == "APPROVED"
REJECTED == "REJECTED"
Statuses == {PENDING_VERIFICATION, VERIFIED, VERIFICATION_FAILED, APPROVED, REJECTED}

VERIFY_DOCUMENTS == "VERIFY_DOCUMENTS"
CHECK_ELIGIBILITY == "CHECK_ELIGIBILITY"
\* an action that neither worker knows
UNKNOWN_ACTION == "ARCHIVE"
\* a field the parsed body does not have
Undefined == 0

\* the action of a body that has none
NoAction == "none"

VARIABLES
  loans,      \* the loans table: id -> row, or NoLoan
  nextId,     \* the next AUTO_INCREMENT id (result.insertId)
  vq,         \* doc-verification-queue: set of messages
  eq,         \* eligibility-queue: set of messages
  sns,        \* events published on the loan-approved topic, per loan
  topicArn,   \* whether LOAN_APPROVED_TOPIC_ARN is set for the lambda
  vpc,        \* per verification instance: position in pollMessages
  vbatch,     \* per verification instance: data.Messages still to handle
  isVerified, \* per verification instance: isVerified of the current message
  vtimer,     \* per verification instance: the delays of the pending
              \* setTimeout(pollMessages, delay) calls (0: the first call)
  vcalls,     \* per verification instance: the receiveMessage calls issued, modulo 2
  vrun,       \* per verification instance: "running", "closing" (SIGTERM
  pool,       \* this.pool of the Database helper: null, open, ended
  conns,      \* per caller: the connections it has checked out of the pool
  qpc,        \* per caller: where its call of query() is
  qres,       \* per caller: how its last call of query() ended
              \* received, db.close() awaited) or "exited"
  epc,        \* position of the running lambda invocation
  ebatch,     \* event.Records still to handle
  eall,       \* event.Records of the running invocation
  loan,       \* loans[0].loanAmount, as fetched for the current record
  eligible,   \* eligibilityResult.eligible of the current record
  processedRecords, \* processedRecords of the running invocation
  failedRecords,    \* failedRecords of the running invocation
  eres,       \* the statusCode of the result the running invocation returns, 0: none yet
  econn,      \* the connection of the running invocation: none, open, closed, close_failed
  res,        \* the response of loan-service to the last POST /loans
  h           \* per loan: what has been done to it so far (history)

vars == <<loans, nextId, vq, eq, sns, topicArn, vpc, vbatch, isVerified,
          vtimer, vcalls, vrun, pool, conns, qpc, qres, epc, ebatch, eall, loan, eligible, processedRecords, failedRecords, eres, econn, res, h>>

NoLoan == [exists |-> FALSE, userId |-> 0, loanAmount |-> 0, status |-> "none"]

\* vRecv: the instances that received the loan's VERIFY_DOCUMENTS message;
\* vWrites, eWrites: the status UPDATEs of each worker that hit the row;
\* vChanges: the UPDATEs of the verification worker that changed the status
\* enqueued: whether the sendSQSMessage of POST /loans put the message on
\* the queue; seen: the statuses the row has had
NoHistory ==
  [vRecv |-> {}, vWrites |-> 0, vChanges |-> 0, eWrites |-> 0, enqueued |-> FALSE,
   seen |-> {}]

\* no request answered yet
NoResponse == [statusCode |-> 0, loanId |-> 0, status |-> "none"]

\* the message a sendMessage call puts on a queue; seq tells messages of
\* one loan on one queue apart (SQS gives each its own MessageId), rc is its
\* receive count, and a deleted message stays in the set as a record of it;
\* json: the body is the JSON.stringify of an object
Message(loanId, userId, action, seq) ==
  [json |-> TRUE, loanId |-> loanId, userId |-> userId, action |-> action, seq |-> seq,
   rc |-> 0, deleted |-> FALSE]

\* the messages a queue holds
Held(q) == {m \in q : ~m.deleted}

\* what a consumer holds of a received message: the body and the receipt
\* handle of this very receive
Received(m) ==
  [json |-> m.json, loanId |-> m.loanId, userId |-> m.userId, action |-> m.action,
   seq |-> m.seq, rh |-> m.rc + 1]

\* the messages ever put on queue q for a loan
Sent(q, loanId) == {m \in q : m.loanId = loanId}

SameMessage(m, r) == m.loanId = r.loanId /\ m.seq = r.seq

\* the queue after the broker handed out the messages in B
Hide(q, B) ==
  {IF m \in B THEN [m EXCEPT !.rc = m.rc + 1] ELSE m : m \in q}

\* the queue after deleteMessage with a receipt handle: only the most
\* recently issued handle of a message deletes it
DeleteByHandle(q, r) ==
  {IF SameMessage(m, r) /\ m.rc = r.rh THEN [m EXCEPT !.deleted = TRUE] ELSE m : m \in q}

\* the orders in which a receive call may return the messages in B
RECURSIVE Orders(_)
Orders(B) ==
  IF B = {} THEN {<<>>}
  ELSE UNION {{<<Received(m)>> \o s : s \in Orders(B \ {m})} : m \in B}

\* how many times the messages in B have been delivered so far
RECURSIVE Deliveries(_)
Deliveries(B) ==
  IF B = {} THEN 0
  ELSE LET m == CHOOSE x \in B : TRUE
       IN m.rc + Deliveries(B \ {m})

\* the batches a receive call may return from queue q: messages never
\* received, and received ones whose visibility timeout has expired
Batches(q, delivered) ==
  {B \in SUBSET Held(q) :
     /\ B # {} /\ Cardinality(B) <= MaxNumberOfMessages
     /\ delivered + Cardinality(B) <= MaxDeliveries}

Init ==
  /\ loans = [l \in LoanIds |-> NoLoan]
  /\ nextId = 1
  /\ vq = {}
  /\ eq = {}
  /\ sns = [l \in LoanIds |-> 0]
  /\ topicArn \in BOOLEAN
  /\ vpc = [w \in VWorkers |-> "poll"]
  /\ vbatch = [w \in VWorkers |-> <<>>]
  /\ isVerified = [w \in VWorkers |-> FALSE]
  /\ vtimer = [w \in VWorkers |-> <<0>>]
  /\ vcalls = [w \in VWorkers |-> 0]
  /\ vrun = [w \in VWorkers |-> "running"]
  /\ pool = "null"
  /\ conns = [c \in Callers |-> 0]
  /\ qpc = [c \in Callers |-> "idle"]
  /\ qres = [c \in Callers |-> "none"]
  /\ epc = "idle"
  /\ ebatch = <<>>
  /\ eall = <<>>
  /\ loan = 0
  /\ eligible = FALSE
  /\ processedRecords = <<>>
  /\ failedRecords = <<>>
  /\ eres = 0
  /\ econn = "none"
  /\ res = NoResponse
  /\ h = [l \in LoanIds |-> NoHistory]

(* ----------------------------- loan-service ---------------------------- *)
\* (variant: the message is on the queue although sendMessage failed)
Enqueue_despite_error(q, msg, sent) == q \cup {msg}

\* sendSQSMessage, whose error POST /loans catches and logs
Enqueue(q, msg, sent) == IF sent THEN q \cup {msg} ELSE q

\* (variant: the row is inserted as already VERIFIED)
InsertedStatus_verified == VERIFIED

\* the status of the INSERT
InsertedStatus == PENDING_VERIFICATION

\* res.status(201).json({ message, loanId, status: 'PENDING_VERIFICATION' })
Created(loanId) == [statusCode |-> 201, loanId |-> loanId, status |-> PENDING_VERIFICATION]

\* res.status(404).json({ error: 'User not found' })
UserNotFound == [statusCode |-> 404, loanId |-> 0, status |-> "none"]

\* next(error): the errorHandler answers 500
InternalError == [statusCode |-> 500, loanId |-> 0, status |-> "none"]

\* (variant: the result of the SELECT of the user is not looked at)
UserExists_any(userId) == TRUE

\* SELECT id FROM users WHERE id = ? returns a row
UserExists(userId) == userId \in UserIds

\* POST /loans: the SELECT of the user, the INSERT, then the sendSQSMessage
\* whose failure is only logged; dbOk: the db.query calls do not throw
CreateLoan(userId, loanAmount, sent, dbOk) ==
  /\ nextId <= MaxLoans
  /\ loanAmount \in Amounts
  /\ IF ~dbOk
     THEN /\ res' = InternalError
          /\ UNCHANGED <<loans, nextId, vq, h>>
     ELSE IF ~UserExists(userId)
     THEN /\ res' = UserNotFound
          /\ UNCHANGED <<loans, nextId, vq, h>>
     ELSE /\ loans' = [loans EXCEPT ![nextId] =
                 [exists |-> TRUE, userId |-> userId, loanAmount |-> loanAmount,
                  status |-> InsertedStatus]]
          /\ nextId' = nextId + 1
          /\ vq' = Enqueue(vq, Message(nextId, userId, VERIFY_DOCUMENTS, 0), sent)
          /\ h' = [h EXCEPT ![nextId].enqueued = sent, ![nextId].seen = {InsertedStatus}]
          /\ res' = Created(nextId)
  /\ UNCHANGED <<eq, sns, topicArn, vpc, vbatch, isVerified, vtimer, vcalls, vrun, pool, conns, qpc, qres, epc, ebatch, eall, loan,
                 eligible, processedRecords, failedRecords, eres, econn>>

\* DELETE /loans/:id of a loan that exists: the row is deleted (for an id
\* without a row the answer is 404 and nothing changes)
DeleteLoan(id) ==
  /\ id \in DOMAIN loans /\ loans[id].exists
  /\ loans' = [loans EXCEPT ![id] = NoLoan]
  /\ UNCHANGED <<nextId, vq, eq, sns, topicArn, vpc, vbatch, isVerified, vtimer, vcalls, vrun, pool, conns, qpc, qres, epc, ebatch, eall,
                 loan, eligible, processedRecords, failedRecords, eres, econn, res, h>>

(* ----------------------- doc-verification-service ---------------------- *)
\* Math.random() < 0.9 of verifyDocuments: either outcome
verifyDocuments(loanId, draw) == draw

\* UPDATE loans SET status = ? WHERE id = ?: the row of that id, if there is
\* one, gets the status whatever status it has
UpdateStatus(table, loanId, newStatus) ==
  IF loanId \in DOMAIN table /\ table[loanId].exists
  THEN [table EXCEPT ![loanId].status = newStatus]
  ELSE table

\* the history of loan loanId after a status UPDATE by `who`
Wrote(hist, table, loanId, newStatus, who) ==
  IF loanId \in DOMAIN table /\ table[loanId].exists
  THEN [hist EXCEPT
         ![loanId].vWrites = @ + (IF who = "verification" THEN 1 ELSE 0),
         ![loanId].eWrites = @ + (IF who = "eligibility" THEN 1 ELSE 0),
         ![loanId].vChanges = @ + (IF who = "verification" /\ table[loanId].status # newStatus
                                   THEN 1 ELSE 0),
         ![loanId].seen = @ \cup {newStatus}]
  ELSE hist

\* setTimeout(pollMessages, 1000) after a receive that did not throw
PollDelay == 1000
\* setTimeout(pollMessages, 5000) after a receive that threw
RetryDelay == 5000

\* a pending pollMessages call of instance w starts and issues its receive
Polls(w) ==
  /\ vtimer[w] # <<>>
  /\ vtimer' = [vtimer EXCEPT ![w] = Tail(@)]
  /\ vcalls' = [vcalls EXCEPT ![w] = (@ + 1) % 2]

\* (variant: after the last message both timers are set)
VNextMessage_two_timers(w) ==
  /\ vbatch' = [vbatch EXCEPT ![w] = Tail(@)]
  /\ vpc' = [vpc EXCEPT ![w] = IF Tail(vbatch[w]) = <<>> THEN "poll" ELSE "process"]
  /\ vtimer' = [vtimer EXCEPT ![w] = IF Tail(vbatch[w]) = <<>>
                                     THEN Append(Append(@, PollDelay), RetryDelay) ELSE @]
  /\ isVerified' = [isVerified EXCEPT ![w] = FALSE]

\* (variant: the next poll is scheduled after each message)
VNextMessage_polls_early(w) ==
  /\ vbatch' = [vbatch EXCEPT ![w] = Tail(@)]
  /\ vpc' = [vpc EXCEPT ![w] = "poll"]
  /\ vtimer' = [vtimer EXCEPT ![w] = Append(@, PollDelay)]
  /\ isVerified' = [isVerified EXCEPT ![w] = FALSE]

\* the for loop of pollMessages moves on to the next message, or the batch
\* is finished and setTimeout(pollMessages, 1000) waits for the next poll
VNextMessage(w) ==
  /\ vbatch' = [vbatch EXCEPT ![w] = Tail(@)]
  /\ vpc' = [vpc EXCEPT ![w] = IF Tail(vbatch[w]) = <<>> THEN "poll" ELSE "process"]
  /\ vtimer' = [vtimer EXCEPT ![w] = IF Tail(vbatch[w]) = <<>>
                                     THEN Append(@, PollDelay) ELSE @]
  /\ isVerified' = [isVerified EXCEPT ![w] = FALSE]

\* (variant: the status written does not depend on isVerified)
NewStatus_always_failed(verified) == VERIFICATION_FAILED

\* const newStatus = isVerified ? 'VERIFIED' : 'VERIFICATION_FAILED'
NewStatus(verified) == IF verified THEN VERIFIED ELSE VERIFICATION_FAILED

\* (variant: the eligibility message is sent whatever isVerified is)
AfterUpdate_always_send(verified) == "send"

\* (variant: the result is returned without the send)
AfterUpdate_never_send(verified) == "delete"

\* if (isVerified) the eligibility message is sent, else the result is returned
AfterUpdate(verified) == IF verified THEN "send" ELSE "delete"

\* (variant: the message carries the loan id in place of the user id)
EligibilityMessage_wrong_user(m, seq) == Message(m.loanId, m.loanId, CHECK_ELIGIBILITY, seq)

\* the body of the message for the eligibility queue
EligibilityMessage(m, seq) == Message(m.loanId, m.userId, CHECK_ELIGIBILITY, seq)

\* sqs.receiveMessage returned messages
VReceive(w) ==
  /\ vpc[w] = "poll"
  /\ Polls(w)
  /\ \E B \in Batches(vq, Deliveries(vq) + Deliveries(eq)) : \E s \in Orders(B) :
       /\ vq' = Hide(vq, B)
       /\ vbatch' = [vbatch EXCEPT ![w] = s]
       /\ h' = [l \in LoanIds |->
                  IF \E m \in B : m.loanId = l /\ m.json /\ m.action = VERIFY_DOCUMENTS
                  THEN [h[l] EXCEPT !.vRecv = @ \cup {w}]
                  ELSE h[l]]
  /\ vpc' = [vpc EXCEPT ![w] = "process"]
  /\ UNCHANGED <<loans, nextId, eq, sns, topicArn, isVerified, vrun, pool, conns, qpc, qres, epc, ebatch, eall,
                 loan, eligible, processedRecords, failedRecords, eres, econn, res>>

\* sqs.receiveMessage returned no messages: the next poll is scheduled
VReceiveEmpty(w) ==
  /\ vpc[w] = "poll"
  /\ vtimer[w] # <<>>
  /\ vtimer' = [vtimer EXCEPT ![w] = Append(Tail(@), PollDelay)]
  /\ vcalls' = [vcalls EXCEPT ![w] = (@ + 1) % 2]
  /\ UNCHANGED <<loans, nextId, vq, eq, sns, topicArn, vpc, vbatch, isVerified, vrun, pool, conns, qpc, qres, epc,
                 ebatch, eall, loan, eligible, processedRecords, failedRecords, eres, econn, res, h>>

\* (variant: the catch of pollMessages only logs)
VReceiveError_gives_up(w) ==
  /\ vpc[w] = "poll"
  /\ vtimer[w] # <<>>
  /\ vtimer' = [vtimer EXCEPT ![w] = Tail(@)]
  /\ vcalls' = [vcalls EXCEPT ![w] = (@ + 1) % 2]
  /\ UNCHANGED <<loans, nextId, vq, eq, sns, topicArn, vpc, vbatch, isVerified, vrun, pool, conns, qpc, qres, epc,
                 ebatch, eall, loan, eligible, processedRecords, failedRecords, eres, econn, res, h>>

\* sqs.receiveMessage threw: the catch of pollMessages schedules the retry
VReceiveError(w) ==
  /\ vpc[w] = "poll"
  /\ vtimer[w] # <<>>
  /\ vtimer' = [vtimer EXCEPT ![w] = Append(Tail(@), RetryDelay)]
  /\ vcalls' = [vcalls EXCEPT ![w] = (@ + 1) % 2]
  /\ UNCHANGED <<loans, nextId, vq, eq, sns, topicArn, vpc, vbatch, isVerified, vrun, pool, conns, qpc, qres, epc,
                 ebatch, eall, loan, eligible, processedRecords, failedRecords, eres, econn, res, h>>

\* connection.execute(sql, values) throws on a bind value that is undefined
BindsAll(loanId) == loanId # Undefined

\* processMessage up to and including the UPDATE
VProcess(w, draw, dbOk) ==
  /\ vpc[w] = "process"
  /\ LET m == Head(vbatch[w])
         verified == verifyDocuments(m.loanId, draw)
         newStatus == NewStatus(verified)
     IN IF m.json /\ m.action = VERIFY_DOCUMENTS
        THEN IF dbOk /\ BindsAll(m.loanId)
             THEN /\ loans' = UpdateStatus(loans, m.loanId, newStatus)
                  /\ h' = Wrote(h, loans, m.loanId, newStatus, "verification")
                  /\ isVerified' = [isVerified EXCEPT ![w] = verified]
                  /\ vpc' = [vpc EXCEPT ![w] = AfterUpdate(verified)]
                  /\ UNCHANGED <<vbatch, vtimer>>
             ELSE \* db.query threw: { success: false }, the message is not deleted
                  /\ VNextMessage(w)
                  /\ UNCHANGED <<loans, h>>
        ELSE \* JSON.parse threw, or Unknown action: { success: false }
             /\ VNextMessage(w)
             /\ UNCHANGED <<loans, h>>
  /\ UNCHANGED <<nextId, vq, eq, sns, topicArn, vcalls, vrun, pool, conns, qpc, qres, epc, ebatch, eall, loan,
                 eligible, processedRecords, failedRecords, eres, econn, res>>

\* the sendMessage to the eligibility queue after isVerified
VSend(w, ok) ==
  /\ vpc[w] = "send"
  /\ LET m == Head(vbatch[w])
     IN IF ok
        THEN /\ eq' = eq \cup {EligibilityMessage(m, Cardinality(Sent(eq, m.loanId)) + 1)}
             /\ vpc' = [vpc EXCEPT ![w] = "delete"]
             /\ UNCHANGED <<vbatch, isVerified, vtimer>>
        ELSE \* throw sqsError: { success: false }, the message is not deleted
             /\ VNextMessage(w)
             /\ UNCHANGED eq
  /\ UNCHANGED <<loans, nextId, vq, sns, topicArn, vcalls, vrun, pool, conns, qpc, qres, epc, ebatch, eall, loan,
                 eligible, processedRecords, failedRecords, eres, econn, res, h>>

\* result.success: sqs.deleteMessage, whose failure is only logged
VDelete(w, ok) ==
  /\ vpc[w] = "delete"
  /\ vq' = IF ok THEN DeleteByHandle(vq, Head(vbatch[w])) ELSE vq
  /\ VNextMessage(w)
  /\ UNCHANGED <<loans, nextId, eq, sns, topicArn, vcalls, vrun, pool, conns, qpc, qres, epc, ebatch, eall, loan,
                 eligible, processedRecords, failedRecords, eres, econn, res, h>>

(* --------------------------- eligibility-lambda ------------------------ *)
\* (variant: <= in place of <)
calculateEligibility_le(loanAmount, draw) == draw /\ loanAmount <= MaxLoanAmount

\* calculateEligibility: Math.random() < 0.7 && loanAmount < 1000000
calculateEligibility(loanAmount, draw) == draw /\ loanAmount < MaxLoanAmount

\* (variant: only a negative amount is refused)
InvalidLoanAmount_negative_only(loanAmount) == loanAmount < 0

\* !loanAmount || loanAmount <= 0: calculateEligibility throws
InvalidLoanAmount(loanAmount) == loanAmount <= 0

\* (variant: a record whose publish failed is pushed on failedRecords)
AfterPublish_fails_record(ok) == ok

\* processedRecords.push follows the publish whether it threw or not
AfterPublish(ok) == TRUE

\* processedRecords.push or failedRecords.push of the current record; the for
\* loop of the handler moves on to the next record, or is done
ENextRecord_no_continue(success) ==
  /\ processedRecords' = Append(processedRecords, Head(ebatch))
  /\ failedRecords' = IF success THEN failedRecords
                                 ELSE Append(failedRecords, Head(ebatch))
  /\ ebatch' = Tail(ebatch)
  /\ epc' = IF Tail(ebatch) = <<>> THEN "return" ELSE "record"
  /\ loan' = 0
  /\ eligible' = FALSE
  /\ eres' = IF epc' = "return" THEN 200 ELSE eres
  /\ econn' = econn

ENextRecord_rethrows(success) ==
  /\ processedRecords' = IF success THEN Append(processedRecords, Head(ebatch))
                                    ELSE processedRecords
  /\ failedRecords' = failedRecords
  /\ ebatch' = Tail(ebatch)
  /\ epc' = IF success /\ Tail(ebatch) # <<>> THEN "record" ELSE "return"
  /\ loan' = 0
  /\ eligible' = FALSE
  /\ eres' = IF epc' = "return" THEN (IF success THEN 200 ELSE 500) ELSE eres
  /\ econn' = econn

ENextRecord_aborts(success) ==
  /\ processedRecords' = IF success THEN Append(processedRecords, Head(ebatch))
                                    ELSE processedRecords
  /\ failedRecords' = IF success THEN failedRecords
                                 ELSE Append(failedRecords, Head(ebatch))
  /\ ebatch' = Tail(ebatch)
  /\ epc' = IF success /\ Tail(ebatch) # <<>> THEN "record" ELSE "return"
  /\ loan' = 0
  /\ eligible' = FALSE
  /\ eres' = IF epc' = "return" THEN 200 ELSE eres
  /\ econn' = econn

ENextRecord(success) ==
  /\ processedRecords' = IF success THEN Append(processedRecords, Head(ebatch))
                                    ELSE processedRecords
  /\ failedRecords' = IF success THEN failedRecords
                                 ELSE Append(failedRecords, Head(ebatch))
  /\ ebatch' = Tail(ebatch)
  /\ epc' = IF Tail(ebatch) = <<>> THEN "return" ELSE "record"
  /\ loan' = 0
  /\ eligible' = FALSE
  /\ eres' = IF epc' = "return" THEN 200 ELSE eres
  /\ econn' = econn

\* the event source hands a batch to the handler, which opens its connection
EInvoke(connOk) ==
  /\ epc = "idle"
  /\ \E B \in Batches(eq, Deliveries(vq) + Deliveries(eq)) : \E s \in Orders(B) :
       /\ eq' = Hide(eq, B)
       /\ eall' = s
       /\ ebatch' = s
  /\ epc' = IF connOk THEN "record" ELSE "return"
  /\ econn' = IF connOk THEN "open" ELSE "none"
  /\ eres' = IF connOk THEN 0 ELSE 500
  /\ UNCHANGED <<loans, nextId, vq, sns, topicArn, vpc, vbatch, isVerified, vtimer, vcalls, vrun, pool, conns, qpc, qres, loan, eligible,
                 processedRecords, failedRecords, res, h>>

\* (variant: the action of the message is not looked at)
Accepts_any_action(r) == r.json /\ r.loanId # Undefined

\* JSON.parse(record.body) succeeds, loanId and action are present, and the
\* action is the one the function handles
Accepts(r) == r.json /\ r.loanId # Undefined /\ r.action # NoAction /\ r.action = CHECK_ELIGIBILITY

\* one record up to and including calculateEligibility
ESelect(draw, dbOk) ==
  /\ epc = "record"
  /\ LET r == Head(ebatch)
     IN IF /\ Accepts(r)
           /\ dbOk
           /\ r.loanId \in DOMAIN loans /\ loans[r.loanId].exists
           /\ ~InvalidLoanAmount(loans[r.loanId].loanAmount)
        THEN /\ loan' = loans[r.loanId].loanAmount
             /\ eligible' = calculateEligibility(loans[r.loanId].loanAmount, draw)
             /\ epc' = "update"
             /\ UNCHANGED <<ebatch, processedRecords, failedRecords, eres, econn>>
        ELSE \* failedRecords.push
             ENextRecord(FALSE)
  /\ UNCHANGED <<loans, nextId, vq, eq, sns, topicArn, vpc, vbatch, isVerified, vtimer, vcalls, vrun, pool, conns, qpc, qres, eall, res,
                 h>>

\* (variant: the publish does not look at the configuration)
ShouldPublish_ignores_config(isEligible, arn) == isEligible

\* (variant: the publish does not look at the policy's answer)
ShouldPublish_any_result(isEligible, arn) == arn

\* if (eligibilityResult.eligible && process.env.LOAN_APPROVED_TOPIC_ARN)
ShouldPublish(isEligible, arn) == isEligible /\ arn

\* the UPDATE of the record's loan
EUpdate(dbOk) ==
  /\ epc = "update"
  /\ LET r == Head(ebatch)
         newStatus == IF eligible THEN APPROVED ELSE REJECTED
     IN IF dbOk
        THEN /\ loans' = UpdateStatus(loans, r.loanId, newStatus)
             /\ h' = Wrote(h, loans, r.loanId, newStatus, "eligibility")
             /\ IF ShouldPublish(eligible, topicArn)
                THEN /\ epc' = "publish"
                     /\ UNCHANGED <<ebatch, loan, eligible, processedRecords, failedRecords, eres, econn>>
                ELSE ENextRecord(TRUE) \* processedRecords.push
        ELSE \* failedRecords.push
             /\ ENextRecord(FALSE)
             /\ UNCHANGED <<loans, h>>
  /\ UNCHANGED <<nextId, vq, eq, sns, topicArn, vpc, vbatch, isVerified, vtimer, vcalls, vrun, pool, conns, qpc, qres, eall, res>>

\* sns.publish, whose failure is only logged
EPublish(ok) ==
  /\ epc = "publish"
  /\ LET r == Head(ebatch)
     IN sns' = IF ok THEN [sns EXCEPT ![r.loanId] = @ + 1] ELSE sns
  /\ ENextRecord(AfterPublish(ok))
  /\ UNCHANGED <<loans, nextId, vq, eq, topicArn, vpc, vbatch, isVerified, vtimer, vcalls, vrun, pool, conns, qpc, qres, eall, res, h>>

RECURSIVE DeleteAll(_, _)
DeleteAll(q, s) ==
  IF s = <<>> THEN q ELSE DeleteAll(DeleteByHandle(q, Head(s)), Tail(s))

\* the handler is invoked with an event that has no Records: the connection
\* is opened, for (const record of event.Records) throws into the outer
\* catch, which builds the statusCode 500 result
EInvokeNoRecords(connOk) ==
  /\ epc = "idle"
  /\ epc' = "return"
  /\ econn' = IF connOk THEN "open" ELSE "none"
  /\ eres' = 500
  /\ UNCHANGED <<loans, nextId, vq, eq, sns, topicArn, vpc, vbatch, isVerified, vtimer, vcalls, vrun, pool, conns, qpc, qres,
                 ebatch, eall, loan, eligible, processedRecords, failedRecords, res, h>>

\* (variant: an error of connection.end() becomes the result)
Closed_fails_result(result, ok) == IF ok THEN result ELSE 500

\* the result after the finally block: connection.end() throwing is caught
\* and logged
Closed(result, ok) == result

\* the finally block: if (connection) the connection is ended, once; then
\* the handler's promise resolves with the result
EClose(ok) ==
  /\ epc = "return"
  /\ epc' = "done"
  /\ econn' = IF econn = "open" THEN (IF ok THEN "closed" ELSE "close_failed") ELSE econn
  /\ eres' = IF econn = "open" THEN Closed(eres, ok) ELSE eres
  /\ UNCHANGED <<loans, nextId, vq, eq, sns, topicArn, vpc, vbatch, isVerified, vtimer, vcalls, vrun, pool, conns, qpc, qres,
                 ebatch, eall, loan, eligible, processedRecords, failedRecords, res, h>>

\* the handler returns (it never throws), so the event source deletes the
\* batch from the queue; a delete that does not get through leaves the
\* messages to be received again
EReturn(deleted) ==
  /\ epc = "done"
  /\ eq' = IF deleted THEN DeleteAll(eq, eall) ELSE eq
  /\ epc' = "idle"
  /\ eall' = <<>>
  /\ ebatch' = <<>>
  /\ loan' = 0
  /\ eligible' = FALSE
  /\ processedRecords' = <<>>
  /\ failedRecords' = <<>>
  /\ eres' = 0
  /\ econn' = "none"
  /\ UNCHANGED <<loans, nextId, vq, sns, topicArn, vpc, vbatch, isVerified, vtimer, vcalls, vrun, pool, conns, qpc, qres, res, h>>

(* ------------------------------- Database ------------------------------ *)
\* db.initialize(config): this.pool = await mysql.createPool(...)
Initialize ==
  /\ pool = "null"
  /\ pool' = "open"
  /\ UNCHANGED <<conns, qpc, qres>>
  /\ UNCHANGED <<loans, nextId, vq, eq, sns, topicArn, vpc, vbatch, isVerified, vtimer, vcalls, vrun,
                 epc, ebatch, eall, loan, eligible, processedRecords, failedRecords, eres, econn,
                 res, h>>

\* db.close(): if (this.pool) await this.pool.end(); this.pool is kept
Close ==
  /\ pool = "open"
  /\ pool' = "ended"
  /\ UNCHANGED <<conns, qpc, qres>>
  /\ UNCHANGED <<loans, nextId, vq, eq, sns, topicArn, vpc, vbatch, isVerified, vtimer, vcalls, vrun,
                 epc, ebatch, eall, loan, eligible, processedRecords, failedRecords, eres, econn,
                 res, h>>

\* query() is called: without a pool it throws at once, else it awaits
\* this.pool.getConnection()
Query(c) ==
  /\ qpc[c] = "idle"
  /\ IF pool = "null"
     THEN /\ qres' = [qres EXCEPT ![c] = "not_initialized"]
          /\ UNCHANGED qpc
     ELSE /\ qpc' = [qpc EXCEPT ![c] = "getConnection"]
          /\ qres' = [qres EXCEPT ![c] = "none"]
  /\ UNCHANGED <<pool, conns>>
  /\ UNCHANGED <<loans, nextId, vq, eq, sns, topicArn, vpc, vbatch, isVerified, vtimer, vcalls, vrun,
                 epc, ebatch, eall, loan, eligible, processedRecords, failedRecords, eres, econn,
                 res, h>>

\* this.pool.getConnection() resolves with a connection, or rejects (always
\* so once the pool was ended) and query() throws with nothing acquired
GetConnection(c, ok) ==
  /\ qpc[c] = "getConnection"
  /\ IF ok /\ pool = "open"
     THEN /\ conns' = [conns EXCEPT ![c] = @ + 1]
          /\ qpc' = [qpc EXCEPT ![c] = "execute"]
          /\ UNCHANGED qres
     ELSE /\ qres' = [qres EXCEPT ![c] = "no_connection"]
          /\ qpc' = [qpc EXCEPT ![c] = "idle"]
          /\ UNCHANGED conns
  /\ UNCHANGED pool
  /\ UNCHANGED <<loans, nextId, vq, eq, sns, topicArn, vpc, vbatch, isVerified, vtimer, vcalls, vrun,
                 epc, ebatch, eall, loan, eligible, processedRecords, failedRecords, eres, econn,
                 res, h>>

\* (variant: the release is skipped when the statement throws)
Released_leaks_on_error(n, ok) == IF ok THEN n - 1 ELSE n

\* finally { connection.release() }
Released(n, ok) == n - 1

\* connection.execute(sql, values) resolves or throws; the finally releases
\* the connection and query() returns the results or throws
Execute(c, ok) ==
  /\ qpc[c] = "execute"
  /\ conns' = [conns EXCEPT ![c] = Released(@, ok)]
  /\ qres' = [qres EXCEPT ![c] = IF ok THEN "results" ELSE "statement_error"]
  /\ qpc' = [qpc EXCEPT ![c] = "idle"]
  /\ UNCHANGED pool
  /\ UNCHANGED <<loans, nextId, vq, eq, sns, topicArn, vpc, vbatch, isVerified, vtimer, vcalls, vrun,
                 epc, ebatch, eall, loan, eligible, processedRecords, failedRecords, eres, econn,
                 res, h>>

(* ----------------------------- specification --------------------------- *)
Verification(w) ==
  /\ vrun[w] # "exited"
  /\ \/ VReceive(w)
     \/ \E draw \in BOOLEAN, dbOk \in BOOLEAN : VProcess(w, draw, dbOk)
     \/ \E ok \in BOOLEAN : VSend(w, ok)
     \/ \E ok \in BOOLEAN : VDelete(w, ok)

Eligibility ==
  \/ \E connOk \in BOOLEAN : EInvoke(connOk)
  \/ \E draw \in BOOLEAN, dbOk \in BOOLEAN : ESelect(draw, dbOk)
  \/ \E dbOk \in BOOLEAN : EUpdate(dbOk)
  \/ \E ok \in BOOLEAN : EPublish(ok)
  \/ \E ok \in BOOLEAN : EClose(ok)
  \/ \E deleted \in BOOLEAN : EReturn(deleted)

Producer ==
  \E req \in Requests, sent \in BOOLEAN, dbOk \in BOOLEAN :
    CreateLoan(req.userId, req.loanAmount, sent, dbOk)

\* the deployment of docker-compose: one instance of doc-verification-service
Next ==
  \/ Producer
  \/ Verification("v1")
  \/ Eligibility

Spec == Init /\ [][Next]_vars

\* the poll loop of instance w with every outcome of its receive call
Polling(w) ==
  \/ Verification(w)
  \/ vrun[w] # "exited" /\ VReceiveEmpty(w)
  \/ vrun[w] # "exited" /\ VReceiveError(w)

\* the pipeline of one loan with receive calls that return nothing or fail
NextPoll ==
  \/ nextId = 1 /\ Producer
  \/ Polling("v1")
  \/ Eligibility

\* the event loop of the instance runs a due timer and every continuation
\* of an awaited call
SpecPoll == Init /\ [][NextPoll]_vars /\ WF_vars(Polling("v1"))

\* process.on('SIGTERM'): the handler starts and awaits db.close(); the poll
\* loop and the batch in hand are not told
Sigterm(w) ==
  /\ vrun[w] = "running"
  /\ vrun' = [vrun EXCEPT ![w] = "closing"]
  /\ UNCHANGED <<loans, nextId, vq, eq, sns, topicArn, vpc, vbatch, isVerified, vtimer, vcalls, pool, conns, qpc, qres,
                 epc, ebatch, eall, loan, eligible, processedRecords, failedRecords, eres, econn, res, h>>

\* db.close() has resolved and process.exit(0) ends the instance where it is
Exit(w) ==
  /\ vrun[w] = "closing"
  /\ vrun' = [vrun EXCEPT ![w] = "exited"]
  /\ UNCHANGED <<loans, nextId, vq, eq, sns, topicArn, vpc, vbatch, isVerified, vtimer, vcalls, pool, conns, qpc, qres,
                 epc, ebatch, eall, loan, eligible, processedRecords, failedRecords, eres, econn, res, h>>

\* the pipeline of one loan with the instance being sent SIGTERM
NextShutdown ==
  \/ nextId = 1 /\ Producer
  \/ Polling("v1")
  \/ Eligibility
  \/ Sigterm("v1")
  \/ Exit("v1")

SpecShutdown == Init /\ [][NextShutdown]_vars

\* loanAmount values of a row that calculateEligibility refuses: NULL and 0
\* (both falsy, written 0) and a negative amount
InvalidAmounts == {0, -1}

\* (variant: the UPDATE of PUT /loans/:id also sets the status)
UpdatedRow_resets_status(row, loanAmount) ==
  [row EXCEPT !.loanAmount = loanAmount, !.status = PENDING_VERIFICATION]

\* UPDATE loans SET loanAmount = ? WHERE id = ? (propertyAddress is not a
\* field of the modelled row)
UpdatedRow(row, loanAmount) == [row EXCEPT !.loanAmount = loanAmount]

\* PUT /loans/:id with a loanAmount that passed the validation; no row of
\* that id: the UPDATE matches nothing
UpdateLoan(id, loanAmount) ==
  /\ id \in DOMAIN loans
  /\ loans' = IF loans[id].exists
              THEN [loans EXCEPT ![id] = UpdatedRow(@, loanAmount)]
              ELSE loans
  /\ UNCHANGED <<nextId, vq, eq, sns, topicArn, vpc, vbatch, isVerified, vtimer, vcalls, vrun, pool, conns, qpc, qres,
                 epc, ebatch, eall, loan, eligible, processedRecords, failedRecords, eres, econn, res, h>>

\* a client of the loans table other than loan-service, whose Joi schema
\* admits positive amounts only, leaves a row with such a loanAmount
StoreWrite(id, loanAmount) ==
  /\ id \in DOMAIN loans /\ loans[id].exists
  /\ loans[id].loanAmount # loanAmount
  /\ loans' = [loans EXCEPT ![id].loanAmount = loanAmount]
  /\ UNCHANGED <<nextId, vq, eq, sns, topicArn, vpc, vbatch, isVerified, vtimer, vcalls, vrun, pool, conns, qpc, qres, epc, ebatch, eall,
                 loan, eligible, processedRecords, failedRecords, eres, econn, res, h>>

\* the pipeline of one loan with the other users of the loans table
NextStore ==
  \/ nextId = 1 /\ Producer
  \/ Verification("v1")
  \/ Eligibility
  \/ \E id \in LoanIds : DeleteLoan(id)
  \/ \E id \in LoanIds, a \in InvalidAmounts : StoreWrite(id, a)
  \/ \E id \in LoanIds, a \in Amounts : UpdateLoan(id, a)

SpecStore == Init /\ [][NextStore]_vars

\* the Database helper of one service under requests that overlap
NextDatabase ==
  \/ Initialize
  \/ Close
  \/ \E c \in Callers : Query(c)
  \/ \E c \in Callers, ok \in BOOLEAN : GetConnection(c, ok)
  \/ \E c \in Callers, ok \in BOOLEAN : Execute(c, ok)

SpecDatabase == Init /\ [][NextDatabase]_vars

\* the bodies of messages that are not what loan-service sends: a body that
\* is not JSON, a body without loanId, a body with another action
NotJSON == [json |-> FALSE, loanId |-> Undefined, userId |-> Undefined, action |-> NoAction]

ForeignBodies ==
  {NotJSON,
   [json |-> TRUE, loanId |-> Undefined, userId |-> 1, action |-> VERIFY_DOCUMENTS],
   [json |-> TRUE, loanId |-> 1, userId |-> 1, action |-> UNKNOWN_ACTION]}

\* the messages on the verification queue that loan-service did not send
Foreign(q) == {m \in q : m.seq < 0}

\* the bodies on the eligibility queue that the verification service does not
\* send: no loanId, no action, the action of the other queue
ForeignEligibilityBodies ==
  {[json |-> TRUE, loanId |-> Undefined, userId |-> 1, action |-> CHECK_ELIGIBILITY],
   [json |-> TRUE, loanId |-> 1, userId |-> 1, action |-> NoAction],
   [json |-> TRUE, loanId |-> 1, userId |-> 1, action |-> VERIFY_DOCUMENTS]}

\* another sender puts a message on the verification queue
ForeignSend(b) ==
  /\ Cardinality(Foreign(vq)) + Cardinality(Foreign(eq)) < MaxForeign
  /\ vq' = vq \cup {[json |-> b.json, loanId |-> b.loanId, userId |-> b.userId,
                      action |-> b.action, seq |-> -1 - Cardinality(Foreign(vq)),
                      rc |-> 0, deleted |-> FALSE]}
  /\ UNCHANGED <<loans, nextId, eq, sns, topicArn, vpc, vbatch, isVerified, vtimer, vcalls, vrun, pool, conns, qpc, qres, epc, ebatch,
                 eall, loan, eligible, processedRecords, failedRecords, eres, econn, res, h>>

\* another sender puts a message on the eligibility queue
ForeignSendEligibility(b) ==
  /\ Cardinality(Foreign(vq)) + Cardinality(Foreign(eq)) < MaxForeign
  /\ eq' = eq \cup {[json |-> b.json, loanId |-> b.loanId, userId |-> b.userId,
                      action |-> b.action, seq |-> -1 - Cardinality(Foreign(eq)),
                      rc |-> 0, deleted |-> FALSE]}
  /\ UNCHANGED <<loans, nextId, vq, sns, topicArn, vpc, vbatch, isVerified, vtimer, vcalls, vrun, pool, conns, qpc, qres,
                 epc, ebatch, eall, loan, eligible, processedRecords, failedRecords, eres, econn, res, h>>

\* the pipeline with queues that other senders can write to
NextForeign ==
  \/ nextId = 1 /\ Producer
  \/ Verification("v1")
  \/ Eligibility
  \/ \E b \in ForeignBodies : ForeignSend(b)

SpecForeign == Init /\ [][NextForeign]_vars

\* one instance polling a queue that also holds a body that is not JSON,
\* with receive calls that return nothing or fail
NextPollForeign ==
  \/ nextId = 1 /\ CreateLoan(1, 999999, TRUE, TRUE)
  \/ Polling("v1")
  \/ Eligibility
  \/ ForeignSend(NotJSON)

SpecPollForeign == Init /\ [][NextPollForeign]_vars

\* the pipeline with an eligibility queue that other senders can write to
NextForeignEligibility ==
  \/ nextId = 1 /\ CreateLoan(1, 999999, TRUE, TRUE)
  \/ Verification("v1")
  \/ Eligibility
  \/ ForeignSend(NotJSON)
  \/ \E b \in ForeignEligibilityBodies : ForeignSendEligibility(b)

SpecForeignEligibility == Init /\ [][NextForeignEligibility]_vars

\* the eligibility handler under the events of the pipeline, records whose
\* body is not JSON, and events without Records
NextHandler ==
  \/ nextId = 1 /\ CreateLoan(1, 999999, TRUE, TRUE)
  \/ Verification("v1")
  \/ Eligibility
  \/ ForeignSendEligibility(NotJSON)
  \/ \E connOk \in BOOLEAN : EInvokeNoRecords(connOk)

SpecHandler == Init /\ [][NextHandler]_vars

\* doc-verification-service scaled out to two instances that compete for the
\* messages of one loan
NextTwoWorkers ==
  \/ nextId = 1 /\ Producer
  \/ \E w \in VWorkers : Verification(w)
  \/ Eligibility

SpecTwoWorkers == Init /\ [][NextTwoWorkers]_vars

(* -------------------------------- claims ------------------------------- *)
\* the status graph of the pipeline
StatusGraph ==
  {<<PENDING_VERIFICATION, VERIFIED>>, <<PENDING_VERIFICATION, VERIFICATION_FAILED>>,
   <<VERIFIED, APPROVED>>, <<VERIFIED, REJECTED>>}

Terminal == {VERIFICATION_FAILED, APPROVED, REJECTED}

\* this step is a step of verification instance w / of the lambda
VActed(w) == vpc'[w] # vpc[w] \/ vbatch'[w] # vbatch[w]
EActed == epc' # epc \/ ebatch' # ebatch

\* no instance holds the loan's verification message in its batch
VIdle(l) == \A w \in VWorkers : \A i \in 1..Len(vbatch[w]) : vbatch[w][i].loanId # l

\* C1: every change of a loan's status is an edge of the status graph
\* PENDING_VERIFICATION -> {VERIFIED, VERIFICATION_FAILED},
\* VERIFIED -> {APPROVED, REJECTED}.
C1_StatusFollowsGraph ==
  [][\A l \in LoanIds :
       (loans[l].exists /\ loans'[l].status # loans[l].status)
         => <<loans[l].status, loans'[l].status>> \in StatusGraph]_vars

\* C2: once the VERIFY_DOCUMENTS message of a loan has been delivered twice
\* to the (single) verification worker, one delivery after the other, and
\* both deliveries are processed, the worker has changed the status exactly
\* once and at most one CHECK_ELIGIBILITY message of the loan was enqueued.
C2_RedeliveryIsIdempotent ==
  \A m \in vq :
    (m.rc >= 2 /\ VIdle(m.loanId) /\ h[m.loanId].vWrites >= 1)
      => /\ h[m.loanId].vChanges = 1
         /\ Cardinality(Sent(eq, m.loanId)) <= 1

\* C3: the verification worker writes a status only over PENDING_VERIFICATION:
\* processing a message of a loan in any other status issues no write and
\* leaves the status as it is.
C3_VerificationWritesOnlyPending ==
  [][\A w \in VWorkers :
       (VActed(w) /\ vpc[w] = "process")
         => LET l == Head(vbatch[w]).loanId
            IN (loans[l].exists /\ loans[l].status # PENDING_VERIFICATION)
                 => /\ loans'[l].status = loans[l].status
                    /\ h'[l].vWrites = h[l].vWrites]_vars

\* C4: the eligibility worker writes a status only over VERIFIED: its UPDATE
\* step for a loan in any other status issues no write and leaves the status
\* as it is.
C4_EligibilityWritesOnlyVerified ==
  [][(EActed /\ epc = "update")
       => LET l == Head(ebatch).loanId
          IN (loans[l].exists /\ loans[l].status # VERIFIED)
               => /\ loans'[l].status = loans[l].status
                  /\ h'[l].eWrites = h[l].eWrites]_vars

\* C5: a status of VERIFICATION_FAILED, APPROVED or REJECTED never changes
\* again.
C5_TerminalIsFinal ==
  [][\A l \in LoanIds :
       loans[l].status \in Terminal => loans'[l].status = loans[l].status]_vars

\* C6: when both verification instances have received the VERIFY_DOCUMENTS
\* message of a loan, the status of the loan was written at most once by
\* them and at most one CHECK_ELIGIBILITY message of the loan was enqueued.
C6_CompetingConsumersWriteOnce ==
  \A l \in LoanIds :
    h[l].vRecv = VWorkers
      => /\ h[l].vWrites <= 1
         /\ Cardinality(Sent(eq, l)) <= 1

\* C7: when the one CHECK_ELIGIBILITY message of a loan has been delivered to
\* the eligibility worker more than once, the worker has written the status
\* at most once and at most one approval notification of the loan was
\* published.
C7_EligibilityRedeliveryIsIdempotent ==
  \A m \in eq :
    (m.rc >= 2 /\ Cardinality(Sent(eq, m.loanId)) = 1)
      => /\ h[m.loanId].eWrites <= 1
         /\ sns[m.loanId] <= 1

\* C8: for a fetched loanAmount of 1,000,000 or more the policy answers
\* not eligible whatever the random draw is, and the status the worker then
\* writes is REJECTED; for a positive amount below 1,000,000 the policy can
\* answer eligible and can answer not eligible.
C8_CeilingAlwaysRejected ==
  /\ [](epc \in {"update", "publish"} /\ loan >= MaxLoanAmount => ~eligible)
  /\ [][(EActed /\ epc = "update" /\ loan >= MaxLoanAmount)
          => LET l == Head(ebatch).loanId
             IN h'[l].eWrites # h[l].eWrites => loans'[l].status = REJECTED]_vars
  /\ []((/\ epc = "record"
         /\ loans[Head(ebatch).loanId].exists
         /\ loans[Head(ebatch).loanId].loanAmount > 0
         /\ loans[Head(ebatch).loanId].loanAmount < MaxLoanAmount)
          => /\ ENABLED (ESelect(TRUE, TRUE) /\ eligible')
             /\ ENABLED (ESelect(FALSE, TRUE) /\ epc' = "update" /\ ~eligible'))

\* the eligibility worker has written the status of a loan of 1,000,000
C8_Witness ==
  \E l \in LoanIds :
    /\ loans[l].exists /\ loans[l].loanAmount >= MaxLoanAmount
    /\ h[l].eWrites = 1
    /\ loans[l].status = REJECTED

\* C9: when the verification worker processes a VERIFY_DOCUMENTS message of a
\* loan in PENDING_VERIFICATION and the policy returns passed, the UPDATE
\* makes the status VERIFIED and the worker goes on to the send, which puts
\* exactly one message on the eligibility queue, with action
\* CHECK_ELIGIBILITY and the loanId and userId of the source message.
C9_PassedIsVerifiedAndForwarded ==
  [][\A w \in VWorkers :
       VActed(w)
         => /\ (/\ vpc[w] = "process"
                /\ loans[Head(vbatch[w]).loanId].exists
                /\ loans[Head(vbatch[w]).loanId].status = PENDING_VERIFICATION
                /\ isVerified'[w])
                 => /\ loans'[Head(vbatch[w]).loanId].status = VERIFIED
                    /\ vpc'[w] = "send"
            /\ (vpc[w] = "send" /\ vpc'[w] = "delete")
                 => \E x \in eq' \ eq :
                      /\ eq' = eq \cup {x}
                      /\ x.loanId = Head(vbatch[w]).loanId
                      /\ x.userId = Head(vbatch[w]).userId
                      /\ x.userId = loans[x.loanId].userId
                      /\ x.action = CHECK_ELIGIBILITY
                      /\ x.rc = 0 /\ ~x.deleted]_vars

\* a passed message whose eligibility message is on the queue
C9_Witness ==
  \E w \in VWorkers :
    /\ vpc[w] = "delete" /\ isVerified[w]
    /\ LET m == Head(vbatch[w])
       IN /\ m.rh = 1
          /\ loans[m.loanId].status = VERIFIED
          /\ \E x \in Held(eq) : x.loanId = m.loanId /\ x.userId = m.userId /\ x.userId = 2

\* C10: when the verification worker processes a VERIFY_DOCUMENTS message of
\* a loan in PENDING_VERIFICATION and the policy returns failed, the UPDATE
\* makes the status VERIFICATION_FAILED, the processing puts nothing on the
\* eligibility queue, and the result is a success, so that the delete of the
\* source message is the next step.
C10_FailedIsTerminalAndNotForwarded ==
  [][\A w \in VWorkers :
       VActed(w)
         => /\ (/\ vpc[w] = "process"
                /\ loans[Head(vbatch[w]).loanId].exists
                /\ loans[Head(vbatch[w]).loanId].status = PENDING_VERIFICATION
                /\ h'[Head(vbatch[w]).loanId].vWrites # h[Head(vbatch[w]).loanId].vWrites
                /\ ~isVerified'[w])
                 => /\ loans'[Head(vbatch[w]).loanId].status = VERIFICATION_FAILED
                    /\ eq' = eq
                    /\ vpc'[w] = "delete"
            /\ (vpc[w] = "delete" /\ ~isVerified[w])
                 => /\ eq' = eq
                    /\ vq' \in {vq, DeleteByHandle(vq, Head(vbatch[w]))}]_vars

\* a failed message about to be deleted, nothing forwarded
C10_Witness ==
  \E w \in VWorkers :
    /\ vpc[w] = "delete" /\ ~isVerified[w]
    /\ LET m == Head(vbatch[w])
       IN /\ m.rh = 1
          /\ loans[m.loanId].status = VERIFICATION_FAILED
          /\ Sent(eq, m.loanId) = {}

\* C11 as claimed: when the eligibility worker's UPDATE for a VERIFIED loan
\* is applied with the policy's answer eligible, the status becomes APPROVED
\* and the worker goes on to one publish attempt for that loan, whatever the
\* configuration of the worker is.
C11_ApprovedPublishesOnceAnyConfig ==
  [][(EActed /\ epc = "update" /\ eligible)
       => LET l == Head(ebatch).loanId
          IN (loans[l].exists /\ loans[l].status = VERIFIED /\ loans' # loans)
               => /\ loans'[l].status = APPROVED
                  /\ epc' = "publish" /\ Head(ebatch').loanId = l]_vars

\* C11 as amended: when the eligibility worker's UPDATE for a VERIFIED loan
\* is applied with the policy's answer eligible, the status becomes APPROVED;
\* with LOAN_APPROVED_TOPIC_ARN set the worker goes on to the publish of that
\* loan, which is attempted once (the step after it is the next record) and
\* adds at most one event, of that loan; with LOAN_APPROVED_TOPIC_ARN unset
\* no publish is attempted.
C11_ApprovedPublishesOnceIfConfigured ==
  [][EActed
       => /\ (epc = "update" /\ eligible)
               => LET l == Head(ebatch).loanId
                  IN (loans[l].exists /\ loans[l].status = VERIFIED /\ loans' # loans)
                       => /\ loans'[l].status = APPROVED
                          /\ topicArn => epc' = "publish" /\ Head(ebatch').loanId = l
                          /\ ~topicArn => epc' # "publish" /\ ebatch' = Tail(ebatch)
          /\ epc = "publish"
               => /\ ebatch' = Tail(ebatch) /\ epc' # "publish"
                  /\ \A l \in LoanIds :
                       sns'[l] = sns[l] + (IF l = Head(ebatch).loanId /\ sns' # sns THEN 1 ELSE 0)
          /\ epc # "publish" => sns' = sns]_vars

\* an approved loan, first delivery, whose publish is the next step
C11_Witness ==
  /\ epc = "publish" /\ topicArn
  /\ LET r == Head(ebatch)
     IN /\ r.rh = 1
        /\ loans[r.loanId].status = APPROVED
        /\ h[r.loanId].eWrites = 1
        /\ sns[r.loanId] = 0

\* C12: when the publish of an approved loan fails, the step leaves the
\* loans table as it is (the APPROVED written stays), pushes the record on
\* processedRecords and not on failedRecords, and moves on to the next
\* record of the batch (or to the return after the last one); the
\* invocation then returns normally, so that the delete of the batch covers
\* the record's message.
C12_PublishFailureIsNotARecordFailure ==
  [][EActed
       => /\ (epc = "publish" /\ sns' = sns)
               => /\ loans' = loans
                  /\ processedRecords' = Append(processedRecords, Head(ebatch))
                  /\ failedRecords' = failedRecords
                  /\ ebatch' = Tail(ebatch)
                  /\ epc' = IF Tail(ebatch) = <<>> THEN "return" ELSE "record"
          /\ (epc = "done" /\ eq' # eq)
               => \A i \in 1..Len(processedRecords) :
                    \A m \in eq' :
                      (SameMessage(m, processedRecords[i]) /\ m.rc = processedRecords[i].rh)
                        => m.deleted]_vars

\* the invocation returns with a record whose publish failed: the loan is
\* APPROVED, nothing is on the topic, the record is among the processed
C12_Witness ==
  /\ epc = "return" /\ topicArn
  /\ \E i \in 1..Len(processedRecords) :
       LET l == processedRecords[i].loanId
       IN /\ loans[l].status = APPROVED
          /\ h[l].eWrites = 1
          /\ sns[l] = 0
  /\ failedRecords = <<>>

\* C13: POST /loans for an existing user (the store answering) inserts the
\* row with status PENDING_VERIFICATION and answers 201 with the new loanId
\* and the status PENDING_VERIFICATION, when the sendSQSMessage succeeds (the
\* message is then on the queue) and when it fails (the queue is then as it
\* was); and no step of the pipeline removes a row or takes the insert back.
C13_CreatedWhateverTheEnqueueDoes ==
  /\ [](nextId <= MaxLoans
         => \A u \in UserIds, a \in Amounts, sent \in BOOLEAN :
              ENABLED (/\ CreateLoan(u, a, sent, TRUE)
                       /\ loans'[nextId] = [exists |-> TRUE, userId |-> u, loanAmount |-> a,
                                            status |-> PENDING_VERIFICATION]
                       /\ res' = [statusCode |-> 201, loanId |-> nextId,
                                  status |-> PENDING_VERIFICATION]
                       /\ Held(vq') = Held(vq) \cup
                            (IF sent
                             THEN {Message(nextId, u, VERIFY_DOCUMENTS, 0)}
                             ELSE {})))
  /\ [][\A l \in LoanIds :
          loans[l].exists
            => /\ loans'[l].exists
               /\ loans'[l].userId = loans[l].userId
               /\ loans'[l].loanAmount = loans[l].loanAmount]_vars
  /\ [](\A l \in LoanIds : loans[l].exists /\ h[l].vWrites + h[l].eWrites = 0
                              => loans[l].status = PENDING_VERIFICATION)

\* a loan created with an enqueue that failed: the row is there, the answer
\* was 201, the queue has no message of it
C13_Witness ==
  \E l \in LoanIds :
    /\ loans[l].exists /\ loans[l].status = PENDING_VERIFICATION
    /\ ~h[l].enqueued /\ Sent(vq, l) = {}
    /\ res = Created(l)

C15_FailedSendIsRetriedSafely ==
  [][\A w \in VWorkers :
       VActed(w)
         => /\ (vpc[w] = "send" /\ eq' = eq)
                 => vq' = vq /\ vpc'[w] # "delete"
            /\ (/\ vpc[w] = "process"
                /\ Head(vbatch[w]).rh >= 2
                /\ loans[Head(vbatch[w]).loanId].exists
                /\ loans[Head(vbatch[w]).loanId].status = VERIFIED
                /\ Sent(eq, Head(vbatch[w]).loanId) = {}
                /\ h'[Head(vbatch[w]).loanId].vWrites # h[Head(vbatch[w]).loanId].vWrites)
                 => /\ loans'[Head(vbatch[w]).loanId].status = VERIFIED
                    /\ vpc'[w] = "send"]_vars

\* C16: the verification worker changes the queue after a receive only by
\* the deleteMessage of the message it is handling, and it comes to that
\* delete only from a processing that succeeded: from the UPDATE to
\* VERIFICATION_FAILED having been applied, or, the UPDATE to VERIFIED
\* having been applied, from the send having put the eligibility message on
\* its queue. A processing that fails (unknown action, the UPDATE or the send
\* throwing) moves on to the next message with the queue as it was.
C16_DeleteOnlyAfterSuccess ==
  [][\A w \in VWorkers :
       (VActed(w) /\ vpc[w] # "poll")
         => LET m == Head(vbatch[w])
            IN /\ vq' # vq
                    => vpc[w] = "delete" /\ vq' = DeleteByHandle(vq, m)
               /\ (vpc'[w] = "delete" /\ vpc[w] # "delete")
                    => /\ vbatch'[w] = vbatch[w]
                       /\ \/ /\ vpc[w] = "process" /\ ~isVerified'[w]
                             /\ m.action = VERIFY_DOCUMENTS
                             /\ loans' = UpdateStatus(loans, m.loanId, VERIFICATION_FAILED)
                          \/ /\ vpc[w] = "send" /\ isVerified[w]
                             /\ \E x \in eq' \ eq :
                                  x.loanId = m.loanId /\ x.action = CHECK_ELIGIBILITY
               /\ (vpc'[w] = "send" /\ vpc[w] # "send")
                    => /\ vpc[w] = "process" /\ isVerified'[w]
                       /\ vbatch'[w] = vbatch[w]
                       /\ m.action = VERIFY_DOCUMENTS
                       /\ loans' = UpdateStatus(loans, m.loanId, VERIFIED)
               /\ (vpc[w] \in {"process", "send"} /\ vbatch'[w] # vbatch[w])
                    => vq' = vq /\ eq' = eq /\ loans' = loans]_vars

\* a message deleted after its first delivery, the loan VERIFIED and its
\* eligibility message enqueued
C16_Witness ==
  \E m \in vq :
    /\ m.deleted /\ m.rc = 1
    /\ loans[m.loanId].status = VERIFIED
    /\ Cardinality(Sent(eq, m.loanId)) = 1
    /\ h[m.loanId].vWrites = 1

\* a body the verification worker cannot act on: not JSON, no loanId, or an
\* action other than VERIFY_DOCUMENTS
Malformed(m) == ~m.json \/ m.loanId = Undefined \/ m.action # VERIFY_DOCUMENTS

\* C17: processing a malformed message of the verification queue changes no
\* loan, enqueues nothing and has the worker go on to the delete of that
\* message.
C17_MalformedIsDropped ==
  [][\A w \in VWorkers :
       (VActed(w) /\ vpc[w] = "process" /\ Malformed(Head(vbatch[w])))
         => /\ loans' = loans
            /\ eq' = eq
            /\ vpc'[w] = "delete" /\ vbatch'[w] = vbatch[w]]_vars

\* C18: processing a VERIFY_DOCUMENTS message whose loanId has no row in the
\* loans table writes nothing to the table and does not lead to the send of
\* a CHECK_ELIGIBILITY message for that loanId.
C18_NoRecordIsDropped ==
  [][\A w \in VWorkers :
       (/\ VActed(w) /\ vpc[w] = "process"
        /\ ~Malformed(Head(vbatch[w]))
        /\ ~loans[Head(vbatch[w]).loanId].exists)
         => /\ loans' = loans
            /\ eq' = eq
            /\ vpc'[w] # "send"]_vars

\* C19: when the eligibility worker takes up a record whose loan has no row,
\* or has a row whose loanAmount is missing, zero or negative, the record is
\* pushed on failedRecords and not on processedRecords, the worker goes on
\* to the next record without the UPDATE and without the publish, and the
\* loans table and the topic are as they were.
C19_InvalidLoanIsRejected ==
  [][(EActed /\ epc = "record")
       => LET r == Head(ebatch)
          IN (~loans[r.loanId].exists \/ loans[r.loanId].loanAmount <= 0)
               => /\ loans' = loans
                  /\ sns' = sns
                  /\ failedRecords' = Append(failedRecords, r)
                  /\ processedRecords' = processedRecords
                  /\ ebatch' = Tail(ebatch)
                  /\ epc' \notin {"update", "publish"}]_vars

\* the invocation returns with a failed record of a loan whose amount is not
\* positive; the loan is still VERIFIED and nothing was published
C19_Witness ==
  /\ epc = "return"
  /\ \E i \in 1..Len(failedRecords) :
       LET l == failedRecords[i].loanId
       IN /\ loans[l].exists /\ loans[l].loanAmount <= 0
          /\ loans[l].status = VERIFIED
          /\ h[l].eWrites = 0
          /\ sns[l] = 0

\* the status between VERIFIED and the decision in the Status Workflow of
\* TESTING.md
PENDING_ELIGIBILITY == "PENDING_ELIGIBILITY"

\* C20: every loan whose status is APPROVED or REJECTED has had the status
\* PENDING_ELIGIBILITY before.
C20_DecidedWasPendingEligibility ==
  \A l \in LoanIds :
    (loans[l].exists /\ loans[l].status \in {APPROVED, REJECTED})
      => PENDING_ELIGIBILITY \in h[l].seen

\* C21: while the instance handles a batch no poll is pending, and after
\* every poll iteration exactly one poll is pending: with the delay 1000
\* after a receive that returned (messages or none), with the delay 5000
\* after a receive that threw; and the instance issues a receive call again
\* and again.
C21_PollLoopNeverStops ==
  /\ [](\A w \in VWorkers :
          /\ vpc[w] = "poll" => Len(vtimer[w]) = 1
          /\ vpc[w] # "poll" => vtimer[w] = <<>>)
  /\ [][\A w \in VWorkers :
          vtimer'[w] # vtimer[w]
            => \/ vtimer'[w] = <<>> /\ vpc'[w] = "process" /\ vcalls'[w] # vcalls[w]
               \/ vtimer'[w] = <<1000>> /\ vpc'[w] = "poll"
               \/ vtimer'[w] = <<5000>> /\ vpc'[w] = "poll" /\ vpc[w] = "poll"]_vars
  /\ [](vpc["v1"] = "poll"
         => /\ ENABLED (VReceiveEmpty("v1") /\ vtimer'["v1"] = <<1000>>
                                            /\ vcalls'["v1"] # vcalls["v1"])
            /\ ENABLED (VReceiveError("v1") /\ vtimer'["v1"] = <<5000>>
                                            /\ vcalls'["v1"] # vcalls["v1"]))
  /\ []<>(vcalls["v1"] = 0)
  /\ []<>(vcalls["v1"] = 1)

\* a receive call has failed after a batch was handled: the retry is pending
C21_Witness ==
  /\ vpc["v1"] = "poll" /\ vtimer["v1"] = <<5000>>
  /\ \E m \in vq : m.rc >= 1

\* C22: a step of either worker on a message of its batch either goes on
\* with the same message (the step succeeded) or, the step having failed or
\* the message being done, takes exactly that message off the batch: the
\* verification worker then processes the next message, or after the last
\* one has the next poll scheduled in PollDelay; the eligibility worker has
\* counted the record as processed or failed and takes up the next record,
\* or returns after the last one.
C22_FailureIsContained ==
  [][/\ \A w \in VWorkers :
          (VActed(w) /\ vpc[w] \in {"process", "send", "delete"})
            => \/ vbatch'[w] = vbatch[w] /\ vpc'[w] \in {"send", "delete"}
               \/ /\ vbatch'[w] = Tail(vbatch[w])
                  /\ Tail(vbatch[w]) # <<>> => vpc'[w] = "process" /\ vtimer'[w] = <<>>
                  /\ Tail(vbatch[w]) = <<>> => vpc'[w] = "poll" /\ vtimer'[w] = <<PollDelay>>
     /\ (EActed /\ epc \in {"record", "update", "publish"})
          => \/ ebatch' = ebatch /\ epc' \in {"update", "publish"}
             \/ /\ ebatch' = Tail(ebatch)
                /\ \/ /\ processedRecords' = Append(processedRecords, Head(ebatch))
                      /\ failedRecords' = failedRecords
                   \/ /\ failedRecords' = Append(failedRecords, Head(ebatch))
                      /\ processedRecords' = processedRecords
                /\ epc' = IF Tail(ebatch) = <<>> THEN "return" ELSE "record"]_vars

\* a batch of two records of which the first has failed and the second, the
\* message of the verification service, is taken up
C22_Witness ==
  /\ epc = "record"
  /\ Len(eall) = 2 /\ Len(ebatch) = 1
  /\ Len(failedRecords) = 1 /\ failedRecords[1].seq < 0
  /\ Head(ebatch).seq > 0 /\ Head(ebatch).action = CHECK_ELIGIBILITY

\* C23: when an invocation of the eligibility worker ends, the message of
\* every record of its batch that was not processed because the store failed
\* (the connection was not established, or the SELECT or the UPDATE of the
\* record threw) is still on the eligibility queue, not deleted, so that it
\* is delivered again.
C23_StoreFailureLeavesMessage ==
  [][(epc = "done" /\ epc' = "idle")
       => \A i \in 1..Len(eall) :
            (\A j \in 1..Len(processedRecords) : processedRecords[j] # eall[i])
              => \A m \in eq' : SameMessage(m, eall[i]) => ~m.deleted]_vars

\* C24: a record of the eligibility worker whose body is not JSON, has no
\* loanId, has no action or has an action other than CHECK_ELIGIBILITY
\* (VERIFY_DOCUMENTS included) is pushed on failedRecords and not on
\* processedRecords, no loan is fetched for it, the loans table and the topic
\* are as they were, and the worker goes on to the next record; the UPDATE
\* and the publish are only ever reached for a CHECK_ELIGIBILITY record with
\* a loanId.
C24_OnlyCheckEligibilityActs ==
  [][EActed
       => /\ epc = "record"
               => LET r == Head(ebatch)
                  IN (~r.json \/ r.loanId = Undefined \/ r.action # CHECK_ELIGIBILITY)
                       => /\ failedRecords' = Append(failedRecords, r)
                          /\ processedRecords' = processedRecords
                          /\ loan' = 0
                          /\ loans' = loans /\ h' = h
                          /\ sns' = sns
                          /\ ebatch' = Tail(ebatch)
                          /\ epc' \notin {"update", "publish"}
          /\ epc' \in {"update", "publish"}
               => /\ Head(ebatch').json
                  /\ Head(ebatch').loanId # Undefined
                  /\ Head(ebatch').action = CHECK_ELIGIBILITY]_vars

\* the invocation returns with a failed record that named an existing,
\* verified loan under the action VERIFY_DOCUMENTS: nothing was written or
\* published for the loan
C24_Witness ==
  /\ epc = "return"
  /\ \E i \in 1..Len(failedRecords) :
       LET r == failedRecords[i]
       IN /\ r.action = VERIFY_DOCUMENTS /\ r.loanId # Undefined
          /\ loans[r.loanId].exists /\ loans[r.loanId].status = VERIFIED
          /\ h[r.loanId].eWrites = 0
          /\ sns[r.loanId] = 0

\* C25: every message of loan-service on the verification queue is of a loan
\* whose row was inserted with PENDING_VERIFICATION, and it is put there in
\* the step that inserts the row; the verification worker puts a message on
\* the eligibility queue only in its send step, which it enters only from
\* the step whose UPDATE to VERIFIED was applied; so every message on the
\* eligibility queue, and every record the eligibility worker holds, is of a
\* loan for which a write of VERIFIED by the verification worker has
\* happened.
C25_EnqueueFollowsStatusWrite ==
  /\ [](\A m \in vq :
          m.seq >= 0 => /\ PENDING_VERIFICATION \in h[m.loanId].seen
                        /\ h[m.loanId].enqueued)
  /\ [][\A m \in vq' \ vq :
          (m.rc = 0 /\ m.seq >= 0)
            => /\ ~loans[m.loanId].exists
               /\ loans'[m.loanId].exists
               /\ loans'[m.loanId].status = PENDING_VERIFICATION]_vars
  /\ [][\A w \in VWorkers :
          VActed(w)
            => /\ eq' # eq => vpc[w] = "send" /\ isVerified[w]
               /\ (vpc'[w] = "send" /\ vpc[w] # "send")
                    => LET l == Head(vbatch[w]).loanId
                       IN /\ vpc[w] = "process"
                          /\ loans' = UpdateStatus(loans, l, VERIFIED)
                          /\ h'[l].vWrites = h[l].vWrites + 1
                          /\ eq' = eq]_vars
  /\ [](\A m \in eq :
          m.seq >= 0 => /\ VERIFIED \in h[m.loanId].seen
                        /\ h[m.loanId].vWrites >= 1)
  /\ [](\A i \in 1..Len(eall) :
          /\ VERIFIED \in h[eall[i].loanId].seen
          /\ h[eall[i].loanId].vWrites >= 1)

\* the eligibility worker holds the CHECK_ELIGIBILITY message of a loan that
\* the verification worker wrote once, to VERIFIED
C25_Witness ==
  /\ epc = "record"
  /\ LET r == Head(ebatch)
     IN /\ r.action = CHECK_ELIGIBILITY /\ r.rh = 1
        /\ h[r.loanId].vWrites = 1
        /\ h[r.loanId].seen = {PENDING_VERIFICATION, VERIFIED}
        /\ loans[r.loanId].status = VERIFIED

\* C26: whenever a message is put on the eligibility queue, the loan of its
\* loanId has a row in the loans table and that row's status was set to
\* VERIFIED before; no CHECK_ELIGIBILITY message is enqueued for a loanId
\* without a row.
C26_EnqueuedLoanExists ==
  [][\A m \in eq' \ eq :
       m.rc = 0
         => /\ loans[m.loanId].exists
            /\ VERIFIED \in h[m.loanId].seen
            /\ h[m.loanId].vWrites >= 1]_vars

\* C27: the topic changes only in the publish step of the eligibility
\* worker, by one event of the loan of the record in hand; the worker enters
\* that step only from the UPDATE step of the same record, with the policy's
\* answer eligible and the UPDATE to APPROVED of the record's loan having
\* been applied in that very step; a record whose UPDATE wrote REJECTED, or
\* that failed before or in the UPDATE, goes on to the next record with the
\* topic as it was.
C27_PublishOnlyAfterApproved ==
  [][/\ sns' # sns
          => /\ epc = "publish" /\ eligible
             /\ \A l \in LoanIds :
                  sns'[l] = sns[l] + (IF l = Head(ebatch).loanId THEN 1 ELSE 0)
     /\ (epc' = "publish" /\ epc # "publish")
          => LET l == Head(ebatch).loanId
             IN /\ epc = "update" /\ eligible
                /\ ebatch' = ebatch
                /\ loans' = UpdateStatus(loans, l, APPROVED)
                /\ loans[l].exists
                     => /\ loans'[l].status = APPROVED
                        /\ h'[l].eWrites = h[l].eWrites + 1
     /\ (EActed /\ epc \in {"record", "update"} /\ ebatch' # ebatch)
          => sns' = sns /\ epc' # "publish"]_vars

\* the invocation returns after the one event of an approved loan was
\* published: the loan was written once by the worker and is APPROVED
C27_Witness ==
  /\ epc = "return"
  /\ \E i \in 1..Len(processedRecords) :
       LET l == processedRecords[i].loanId
       IN /\ sns[l] = 1
          /\ h[l].eWrites = 1
          /\ loans[l].exists /\ loans[l].status = APPROVED

\* C28: an instance of the verification worker holds a batch exactly while
\* it is not waiting for its next poll; a receive call is issued only with
\* no batch in hand; every step between two receives acts on the first
\* message of the batch only (its loan, its eligibility message, its
\* delete), and the batch changes only by that message being taken off
\* once its processing, and delete if any, is over; the processing of a
\* message starts only after a receive or after the message before it was
\* taken off.
C28_BatchIsSequential ==
  /\ [](\A w \in VWorkers :
          /\ vpc[w] = "poll" <=> vbatch[w] = <<>>
          /\ vtimer[w] # <<>> => vbatch[w] = <<>>)
  /\ [][\A w \in VWorkers :
          /\ vcalls'[w] # vcalls[w] => vbatch[w] = <<>> /\ vpc[w] = "poll"
          /\ (VActed(w) /\ vpc[w] # "poll")
               => LET m == Head(vbatch[w])
                  IN /\ vbatch'[w] \in {vbatch[w], Tail(vbatch[w])}
                     /\ vq' \in {vq, DeleteByHandle(vq, m)}
                     /\ \A x \in eq' \ eq : x.loanId = m.loanId
                     /\ \A l \in LoanIds : l # m.loanId => loans'[l] = loans[l]
                     /\ vpc'[w] = "process" => vbatch'[w] = Tail(vbatch[w])
                     /\ vbatch'[w] = vbatch[w] => vpc'[w] \in {"send", "delete"}]_vars

\* of a batch of two received in one call the message of loan-service was
\* processed and deleted, and the other message is now being processed
C28_Witness ==
  /\ vpc["v1"] = "process" /\ vcalls["v1"] = 1
  /\ Len(vbatch["v1"]) = 1 /\ Head(vbatch["v1"]).seq < 0 /\ Head(vbatch["v1"]).rh = 1
  /\ \E m \in vq : m.seq >= 0 /\ m.deleted /\ m.rc = 1

\* C29: once SIGTERM was received the instance issues no receive call, and
\* the instance exits only with no message of its batch partly processed:
\* it is waiting for its next poll, or the first message left in the batch
\* has not been touched.
C29_ShutdownLetsBatchFinish ==
  [][\A w \in VWorkers :
       /\ vrun[w] # "running" => vcalls'[w] = vcalls[w]
       /\ (vrun'[w] = "exited" /\ vrun[w] # "exited")
            => vpc[w] \in {"poll", "process"}]_vars

\* C30: a row appears in the loans table only by POST /loans, with status
\* PENDING_VERIFICATION; the status of a row changes only in the UPDATE step
\* of the verification worker or of the eligibility worker for a message of
\* that loan; a step that changes the loanAmount of a row (PUT /loans/:id)
\* leaves its status and its user as they are; and no step of either worker
\* removes a row.
C30_StatusWriters ==
  [][\A l \in LoanIds :
       /\ (~loans[l].exists /\ loans'[l].exists)
            => /\ loans'[l].status = PENDING_VERIFICATION
               /\ nextId = l /\ nextId' = l + 1
               /\ res' = Created(l)
       /\ (loans[l].exists /\ loans'[l].exists /\ loans'[l].status # loans[l].status)
            => \/ \E w \in VWorkers :
                    /\ VActed(w) /\ vpc[w] = "process"
                    /\ Head(vbatch[w]).loanId = l
                    /\ loans'[l].status \in {VERIFIED, VERIFICATION_FAILED}
               \/ /\ EActed /\ epc = "update"
                  /\ Head(ebatch).loanId = l
                  /\ loans'[l].status \in {APPROVED, REJECTED}
       /\ (loans[l].exists /\ loans'[l].exists /\ loans'[l].loanAmount # loans[l].loanAmount)
            => /\ loans'[l].status = loans[l].status
               /\ loans'[l].userId = loans[l].userId
       /\ (EActed \/ \E w \in VWorkers : VActed(w))
            => (loans[l].exists => loans'[l].exists)]_vars

\* a loan of user 1, created with 999,999, that was verified and whose
\* amount PUT /loans/:id has made 1,000,000
C30_Witness ==
  \E l \in LoanIds :
    /\ loans[l].exists /\ loans[l].userId = 1
    /\ loans[l].loanAmount = 1000000
    /\ loans[l].status = VERIFIED
    /\ h[l].vWrites = 1

\* C31: POST /loans for a userId without a user row (the store answering)
\* answers 404 and leaves the loans table, the next loan id and the
\* verification queue as they were; every row of the loans table, and every
\* message of loan-service on the verification queue, is of an existing user.
C31_UnknownUserHasNoEffect ==
  /\ [](nextId <= MaxLoans
         => \A a \in Amounts, sent \in BOOLEAN :
              ENABLED (/\ CreateLoan(NoUser, a, sent, TRUE)
                       /\ res' = UserNotFound
                       /\ loans' = loans /\ nextId' = nextId
                       /\ vq' = vq /\ h' = h))
  /\ [][(res' # res /\ res'.statusCode = 404)
          => loans' = loans /\ nextId' = nextId /\ vq' = vq /\ eq' = eq /\ h' = h]_vars
  /\ [](\A l \in LoanIds : loans[l].exists => loans[l].userId \in UserIds)
  /\ [](\A m \in vq : m.seq >= 0 => m.userId \in UserIds)

\* the request of a user that does not exist was answered 404: no row, no
\* message, the next loan id still the first
C31_Witness ==
  /\ res = UserNotFound
  /\ nextId = 1 /\ ~loans[1].exists
  /\ vq = {}

\* C32: the pipeline does not come to rest with a loan undecided: when the
\* VERIFY_DOCUMENTS message of a loan was enqueued, its row exists, neither
\* queue holds a message of the loan that is still to be delivered or
\* delivered again, and no worker has a message of it in hand, the status
\* of the loan is VERIFICATION_FAILED, APPROVED or REJECTED. (From a state
\* where this fails no step of either worker is left that could decide the
\* loan, whatever the scheduling and however well store and queues behave
\* from then on.)
C32_RestsOnlyWhenDecided ==
  \A l \in LoanIds :
    (/\ loans[l].exists /\ h[l].enqueued
     /\ \A m \in Held(vq) \cup Held(eq) : m.loanId # l
     /\ VIdle(l)
     /\ epc = "idle")
      => loans[l].status \in Terminal

\* C33: while the eligibility handler works through a batch, every record
\* already taken up is on exactly one of processedRecords and failedRecords
\* and the others are still to come; so when it returns statusCode 200 the
\* two lists together hold every record of the batch exactly once and
\* processed + failed is the number of records. A record is pushed on
\* processedRecords only in the step that applies its UPDATE to APPROVED or
\* REJECTED, or in the publish step that follows such an UPDATE.
C33_EveryRecordCountedOnce ==
  /\ [](econn = "open" \/ eres = 200
         => /\ Len(processedRecords) + Len(failedRecords) + Len(ebatch) = Len(eall)
            /\ \A i \in 1..Len(eall) :
                 Cardinality({j \in 1..Len(processedRecords) : processedRecords[j] = eall[i]})
                   + Cardinality({j \in 1..Len(failedRecords) : failedRecords[j] = eall[i]})
                   + Cardinality({j \in 1..Len(ebatch) : ebatch[j] = eall[i]}) = 1)
  /\ [](eres = 200
         => /\ ebatch = <<>>
            /\ Len(processedRecords) + Len(failedRecords) = Len(eall))
  /\ [][(processedRecords' # processedRecords /\ processedRecords' # <<>>)
          => LET r == Head(ebatch)
             IN /\ processedRecords' = Append(processedRecords, r)
                /\ r.action = CHECK_ELIGIBILITY
                /\ \/ /\ epc = "update"
                      /\ loans' = UpdateStatus(loans, r.loanId, IF eligible THEN APPROVED ELSE REJECTED)
                      /\ loans[r.loanId].exists
                           => h'[r.loanId].eWrites = h[r.loanId].eWrites + 1
                   \/ /\ epc = "publish" /\ eligible
                      /\ loans[r.loanId].exists => APPROVED \in h[r.loanId].seen]_vars

\* the handler has returned 200 for a batch of two: one record processed,
\* its loan written by the worker, and one record failed
C33_Witness ==
  /\ epc = "done" /\ eres = 200
  /\ Len(eall) = 2
  /\ Len(processedRecords) = 1 /\ Len(failedRecords) = 1
  /\ h[processedRecords[1].loanId].eWrites = 1

C35_OnePollPending ==
  /\ [](\A w \in VWorkers :
          Len(vtimer[w]) + (IF vpc[w] = "poll" THEN 0 ELSE 1) = 1)
  /\ [][\A w \in VWorkers :
          vtimer'[w] # vtimer[w]
            => \/ /\ Len(vtimer[w]) = 1 /\ vtimer'[w] = <<>>
                  /\ vcalls'[w] # vcalls[w] /\ vbatch'[w] # <<>>
               \/ /\ vtimer'[w] = <<PollDelay>>
                  /\ \/ vpc[w] = "poll" /\ vcalls'[w] # vcalls[w] /\ vbatch'[w] = <<>>
                     \/ vpc[w] # "poll" /\ Len(vbatch[w]) = 1 /\ vbatch'[w] = <<>>
               \/ /\ vtimer'[w] = <<RetryDelay>>
                  /\ vpc[w] = "poll" /\ vcalls'[w] # vcalls[w]
                  /\ vbatch[w] = <<>> /\ vbatch'[w] = <<>>
                  /\ vq' = vq /\ loans' = loans]_vars

\* after one receive of two messages, of which the body that is not JSON
\* failed and the message of loan-service was processed and deleted, the
\* instance waits with the one PollDelay timer
C35_Witness ==
  /\ vpc["v1"] = "poll" /\ vtimer["v1"] = <<PollDelay>>
  /\ vcalls["v1"] = 1
  /\ \E m \in vq : m.seq >= 0 /\ m.deleted /\ m.rc = 1
  /\ \E m \in vq : m.seq < 0 /\ ~m.deleted /\ m.rc = 1

\* C36: the connection of an invocation is open exactly from its
\* establishment to the finally block; the finally block ends an open
\* connection in one step, after which the handler has returned with the
\* connection closed (or its close failed) and never open; when the
\* connection was not established the finally block attempts no close; and
\* the step of the finally block leaves the result as it was, whether the
\* close succeeds or fails.
C36_ConnectionClosedOnce ==
  /\ [](epc \in {"record", "update", "publish"} => econn = "open")
  /\ [](epc = "idle" => econn = "none")
  /\ [](epc = "done" => econn \in {"none", "closed", "close_failed"})
  /\ [][econn' # econn
          => \/ epc = "idle" /\ econn' = "open"
             \/ /\ epc = "return" /\ epc' = "done"
                /\ econn = "open" /\ econn' \in {"closed", "close_failed"}
             \/ epc = "done" /\ epc' = "idle" /\ econn' = "none"]_vars
  /\ [][(EActed /\ epc = "return")
          => /\ epc' = "done"
             /\ eres' = eres
             /\ econn = "open" <=> econn' \in {"closed", "close_failed"}
             /\ econn = "none" => econn' = "none"
             /\ processedRecords' = processedRecords /\ failedRecords' = failedRecords]_vars
  /\ [](epc = "return" /\ econn = "open"
         => /\ ENABLED (EClose(TRUE) /\ econn' = "closed")
            /\ ENABLED (EClose(FALSE) /\ econn' = "close_failed" /\ eres' = eres))

\* the handler has returned 200 for a processed record although the close of
\* its connection failed
C36_Witness ==
  /\ epc = "done" /\ econn = "close_failed"
  /\ eres = 200
  /\ Len(processedRecords) = 1

\* C37: a caller of query() has one connection checked out exactly while its
\* statement runs and none otherwise, so with every call completed no
\* connection is checked out; the connection is taken in the step where
\* getConnection resolves and given back, once, in the step where the
\* statement resolves or throws; a call that finds no pool, or whose
\* getConnection rejects, ends in an error with nothing checked out.
C37_NoConnectionLeak ==
  /\ [](\A c \in Callers : conns[c] = (IF qpc[c] = "execute" THEN 1 ELSE 0))
  /\ []((\A c \in Callers : qpc[c] = "idle") => \A c \in Callers : conns[c] = 0)
  /\ [][\A c \in Callers :
          /\ conns'[c] # conns[c]
               => \/ /\ qpc[c] = "getConnection" /\ qpc'[c] = "execute"
                     /\ pool = "open"
                     /\ conns'[c] = conns[c] + 1
                  \/ /\ qpc[c] = "execute" /\ qpc'[c] = "idle"
                     /\ conns'[c] = conns[c] - 1
                     /\ qres'[c] \in {"results", "statement_error"}
          /\ (qpc[c] = "execute" /\ qpc'[c] # "execute") => conns'[c] = 0
          /\ (qpc[c] = "idle" /\ pool = "null")
               => /\ qpc'[c] = "idle" /\ conns'[c] = 0
                  /\ qres'[c] \in {qres[c], "not_initialized"}]_vars
  /\ [](\A c \in Callers :
          /\ qres[c] \in {"not_initialized", "no_connection"} => conns[c] = 0
          /\ (pool = "null" /\ qpc[c] = "idle")
               => ENABLED (Query(c) /\ qres'[c] = "not_initialized" /\ conns' = conns))

\* three calls have completed, one with results and one with a statement
\* that threw, and one before initialize(); nothing is checked out
C37_Witness ==
  /\ \A c \in Callers : qpc[c] = "idle" /\ conns[c] = 0
  /\ \E c \in Callers : qres[c] = "results"
  /\ \E c \in Callers : qres[c] = "statement_error"
  /\ \E c \in Callers : qres[c] = "not_initialized"
====
